---- MODULE Spec2Model ----
(***************************************************************************)
(* ImportWorker (SQLiteStudio3/coreSQLiteStudio/importworker.cpp): one     *)
(* import job reading rows from an ImportPlugin and inserting them into a  *)
(* table of a Db, with a concurrent interrupt() request.                   *)
(***************************************************************************)
EXTENDS Integers, Sequences, FiniteSets, TLC

\* ------------------------------------------------------------ bounds
MaxRows == 2        \* longest short row stream
MaxRowLen == 2      \* longest row of a short stream
MaxCols == 2        \* most columns the plugin declares, or an existing table has
MaxRuns == 2        \* imports performed one after the other
LongRows == 101     \* length of the long row stream

\* (rowCnt % 100) == 0, importworker.cpp line 184
PollInterval == 100

\* ------------------------------------------------------------ values
ValPool == <<"v1", "v2", "v3", "v4", "v5">>
PluginColPool == << <<"id", "INT">>, <<"order", "">>, <<"x y", "TEXT">>, <<"n", "">> >>
TablePool == <<"t1", "t2", "t3", "t4", "t5">>

\* QVariant(QVariant::String): a null value of text type
NullString == "NULL"

Min(a, b) == IF a < b THEN a ELSE b

\* ------------------------------------------------------------ state
VARIABLES
    skipTransaction,        \* config->skipTransaction
    ignoreErrors,           \* config->ignoreErrors
    pluginColumns,          \* what plugin->getColumns() returns
    source,                 \* the rows plugin->next() delivers, in order
    srcPos,                 \* rows of source consumed by plugin->next()
    db,                     \* the destination: table, rows, open transaction
    pc,                     \* position of run()
    columnsFromPlugin, columnTypesFromPlugin,
    tableColumns, finalColumns, targetColumns, tableCreated,
    interrupted,            \* the flag guarded by interruptMutex
    colCount, rowCnt, row, args,
    events,                 \* calls and signals of this run, in order
    warnings, infos,        \* notifyWarn / notifyInfo of this run, in order
    inserted,               \* bound values of the rows whose execute() succeeded
    failedRows,             \* stream positions of the rows whose execute() failed
    execCount,              \* execute() calls of this run
    startDb,                \* the destination when this worker was constructed
    intPc, intRow,          \* where run() was when interrupt() was first called
    execAfterInt,           \* execute() calls made with the flag already set
    pollsAfterInt,          \* isInterrupted() calls made with the flag already set
    runNo, prevRun          \* number of this import; what the previous one reconciled

cfgVars == <<skipTransaction, ignoreErrors, pluginColumns, source>>
workerVars == <<columnsFromPlugin, columnTypesFromPlugin, tableColumns, finalColumns,
                targetColumns, tableCreated, colCount, rowCnt, row, args>>
histVars == <<inserted, failedRows, execCount, startDb, execAfterInt, pollsAfterInt>>
intVars == <<interrupted, intPc, intRow>>
runVars == <<runNo, prevRun>>
vars == <<cfgVars, workerVars, histVars, intVars, runVars, srcPos, db, pc, events,
          warnings, infos>>

\* ------------------------------------------------------------ the plugin
\* a row of one value or of MaxRowLen values, accepted or rejected by the
\* destination, or an empty row
ShortRows == {[vals |-> SubSeq(ValPool, 1, k), bad |-> b] :
                 k \in {1, MaxRowLen}, b \in BOOLEAN}
             \cup {[vals |-> <<>>, bad |-> FALSE]}
ShortSources == UNION {[1..n -> ShortRows] : n \in 0..MaxRows}
\* LongRows rows of one value: all accepted, or the second one rejected
LongSources == {[i \in 1..LongRows |-> [vals |-> <<"v1">>, bad |-> (i = f)]] : f \in {0, 2}}

\* a row, an empty row, a row: a stream with an empty row inside it
GapSources == {<<a, [vals |-> <<>>, bad |-> FALSE], b>> :
                 a \in {r \in ShortRows : Len(r.vals) > 0},
                 b \in {r \in ShortRows : Len(r.vals) > 0}}

\* plugin->next(): the next row, an empty list at the end of the stream
pluginNext == IF srcPos < Len(source) THEN source[srcPos + 1].vals ELSE <<>>

\* ------------------------------------------------------------ identifiers
QuotedForm == [n \in {"order", "x y"} |-> IF n = "order" THEN "[order]" ELSE "[x y]"]

wrapObjIfNeeded(n) == IF n \in DOMAIN QuotedForm THEN QuotedForm[n] ELSE n

wrapObjNamesIfNeeded(names) == [i \in DOMAIN names |-> wrapObjIfNeeded(names[i])]

\* the name the database reads back from an identifier of a statement
ParseIdent(s) ==
    IF \E n \in DOMAIN QuotedForm : QuotedForm[n] = s
    THEN CHOOSE n \in DOMAIN QuotedForm : QuotedForm[n] = s
    ELSE s

\* ------------------------------------------------------------ the database
EmptyDb == [table |-> <<>>, rows |-> <<>>, inTxn |-> FALSE,
            snapTable |-> <<>>, snapRows |-> <<>>]

DbBegin(d) == [d EXCEPT !.inTxn = TRUE, !.snapTable = d.table, !.snapRows = d.rows]

DbCommit(d) == [d EXCEPT !.inTxn = FALSE, !.snapTable = <<>>, !.snapRows = <<>>]

DbRollback(d) ==
    IF d.inTxn
    THEN [table |-> d.snapTable, rows |-> d.snapRows, inTxn |-> FALSE,
          snapTable |-> <<>>, snapRows |-> <<>>]
    ELSE d

\* CREATE TABLE fails when the table is already there
DbCanCreate(d) == Len(d.table) = 0

\* CREATE TABLE t (colDefs): each colDef is <<identifier>> or <<identifier, type>>
DbCreateTable(d, colDefs) ==
    [d EXCEPT !.table = [i \in DOMAIN colDefs |-> ParseIdent(colDefs[i][1])]]

DbInsert(d, vals) == [d EXCEPT !.rows = Append(d.rows, vals)]

\* what survives if the connection is dropped now
Durable(d) == IF d.inTxn THEN [table |-> d.snapTable, rows |-> d.snapRows]
              ELSE [table |-> d.table, rows |-> d.rows]

\* query->execute() of an INSERT: as many values as parameter marks, one value
\* for each column the statement targets (every column of the table when the
\* statement names none), and a row the destination accepts
ExecuteOk(stmt, vals, bad, d) ==
    LET target == IF Len(stmt.columns) > 0 THEN stmt.columns ELSE d.table
    IN  /\ Len(vals) = stmt.params
        /\ stmt.params = Len(target)
        /\ ~bad

\* resolver.getTableColumns(table)
getTableColumns(d) == d.table

\* ------------------------------------------------------------ the worker
error_NoAfterImport(err) == <<err, "finished_false">>

error_FinishedFirst(err) == <<"finished_false", err, "afterImport">>

\* ImportWorker::error: notifyError, plugin->afterImport, emit finished(false)
error(err) == <<err, "afterImport", "finished_false">>

\* readPluginColumns: the names are appended to columnsFromPlugin
readPluginColumns(cols, defs) == cols \o [i \in DOMAIN defs |-> defs[i][1]]

\* readPluginColumns: the types are appended to columnTypesFromPlugin
readPluginColumnTypes(types, defs) == types \o [i \in DOMAIN defs |-> defs[i][2]]

isInterrupted_Never == FALSE

NoColumns_Never(cols) == FALSE

\* if (columnsFromPlugin.size() == 0)
NoColumns(cols) == Len(cols) = 0

UsesTransaction_Always == TRUE

\* !config->skipTransaction, the guard of db->begin() and db->commit()
UsesTransaction == ~skipTransaction

EndOfStream_OnlyAtEnd(r) == srcPos >= Len(source)

\* the loop condition (row = plugin->next()).size() > 0, negated
EndOfStream(r) == Len(r) = 0

\* isInterrupted(): the flag, read under the mutex
isInterrupted == interrupted

TableExists_Never(tc) == FALSE

\* if (tableColumns.size() > 0)
TableExists(tc) == Len(tc) > 0

Reconcile_NoCut(tc, pcols) == tc

\* finalColumns of the branch for an existing table
Reconcile(tc, pcols) ==
    IF Len(tc) < Len(pcols) THEN tc
    ELSE IF Len(tc) > Len(pcols) THEN SubSeq(tc, 1, Len(pcols))
    ELSE tc

\* the notifyWarn of the branch for an existing table
ReconcileWarnings(tc, pcols) ==
    IF Len(tc) < Len(pcols) THEN << <<"fewerColumns", 0>> >> ELSE <<>>

\* the notifyInfo of the branch for an existing table
ReconcileInfos(tc, pcols) ==
    IF ~(Len(tc) < Len(pcols)) /\ Len(tc) > Len(pcols) THEN <<"moreColumns">> ELSE <<>>

\* colDefs: (wrapObjIfNeeded(name) + " " + type).trimmed()
ColDefs(names, types) ==
    [i \in DOMAIN names |->
        IF types[i] = "" THEN <<wrapObjIfNeeded(names[i])>>
        ELSE <<wrapObjIfNeeded(names[i]), types[i]>>]

\* theInsert: "INSERT INTO %1 VALUES (%2)" with n parameter marks and no column list
InsertStatement(n) == [columns |-> <<>>, params |-> n]

BoundArgs_NoPad(r, n) == SubSeq(r, 1, Min(n, Len(r)))

\* the row after "fill up missing values", cut by row.mid(0, colCount)
BoundArgs(r, n) ==
    LET padded == r \o [i \in 1..(IF n > Len(r) THEN n - Len(r) ELSE 0) |-> NullString]
    IN  SubSeq(padded, 1, Min(n, Len(padded)))

RowWarning_ZeroBased(cnt) == <<"row", cnt>>

\* the warning of an ignored row: "row number %1" with rowCnt + 1
RowWarning(cnt) == <<"row", cnt + 1>>

RowFailureFatal_Never == FALSE

\* config->ignoreErrors decides whether a failed execute() ends the run
RowFailureFatal == ~ignoreErrors

ShouldPoll_Sparse(cnt) == (cnt % (2 * PollInterval)) = 0

\* (rowCnt % 100) == 0
ShouldPoll(cnt) == (cnt % PollInterval) = 0

RollbackUnlessSkipped_Never(d) == d

\* if (!config->skipTransaction) db->rollback();
RollbackUnlessSkipped(d) == IF ~skipTransaction THEN DbRollback(d) ELSE d

RollbackEvents_Always == <<"rollback">>

\* the db->rollback() call of lines 37, 45 and 54, as run() makes it
RollbackEvents == IF ~skipTransaction THEN <<"rollback">> ELSE <<>>

FailureEvents_CreatedTable(err) ==
    (IF tableCreated THEN <<"createdTable">> ELSE <<>>) \o error(err) \o RollbackEvents

FailureEvents_RollbackFirst(err) == RollbackEvents \o error(err)

\* error() in prepareTable, importData or run(), then the rollback of run()
FailureEvents(err) == error(err) \o RollbackEvents

SuccessEvents_AlwaysCreated == <<"createdTable", "afterImport", "finished_true">>

SuccessEvents_NoFinished ==
    (IF tableCreated THEN <<"createdTable">> ELSE <<>>) \o <<"afterImport">>

\* the end of run(): createdTable if tableCreated, afterImport, finished(true)
SuccessEvents ==
    (IF tableCreated THEN <<"createdTable">> ELSE <<>>) \o <<"afterImport", "finished_true">>

\* the members of a newly constructed worker
NewColumnsFromPlugin == <<>>

\* ------------------------------------------------------------ initial states
InitialDb(D) ==
    [EmptyDb EXCEPT !.table = SubSeq(TablePool, 1, D),
                    !.rows = IF D > 0 THEN << [i \in 1..D |-> "old"] >> ELSE <<>>]

InitWorker ==
    /\ skipTransaction \in BOOLEAN
    /\ ignoreErrors \in BOOLEAN
    /\ srcPos = 0
    /\ pc = "idle"
    /\ columnsFromPlugin = NewColumnsFromPlugin
    /\ columnTypesFromPlugin = <<>>
    /\ tableColumns = <<>>
    /\ finalColumns = <<>>
    /\ targetColumns = <<>>
    /\ tableCreated = FALSE
    /\ interrupted = FALSE
    /\ colCount = 0
    /\ rowCnt = 0
    /\ row = <<>>
    /\ args = <<>>
    /\ events = <<>>
    /\ warnings = <<>>
    /\ infos = <<>>
    /\ inserted = <<>>
    /\ failedRows = <<>>
    /\ execCount = 0
    /\ startDb = Durable(db)
    /\ intPc = "none"
    /\ intRow = 0
    /\ execAfterInt = 0
    /\ pollsAfterInt = 0
    /\ runNo = 1
    /\ prevRun = [valid |-> FALSE, table |-> <<>>, cols |-> <<>>, final |-> <<>>]

\* short row streams of every shape, any plugin columns, any existing table
Init ==
    /\ source \in ShortSources
    /\ \E S \in 0..MaxCols : pluginColumns = SubSeq(PluginColPool, 1, S)
    /\ \E D \in 0..MaxCols : db = InitialDb(D)
    /\ InitWorker

\* one long row stream, longer than the distance between two polls of the flag
InitLong ==
    /\ source \in LongSources
    /\ pluginColumns = SubSeq(PluginColPool, 1, 1)
    /\ \E D \in 0..1 : db = InitialDb(D)
    /\ InitWorker

\* a row stream with an empty row inside it
InitGap ==
    /\ source \in GapSources
    /\ \E S \in 1..MaxCols : pluginColumns = SubSeq(PluginColPool, 1, S)
    /\ \E D \in 0..MaxCols : db = InitialDb(D)
    /\ InitWorker

\* ------------------------------------------------------------ run()
\* lines 15-26: beforeImport, readPluginColumns, the zero-column check
RunBeforeImport ==
    /\ pc = "idle"
    /\ \E ok \in BOOLEAN :
        IF ~ok
        THEN /\ events' = events \o <<"beforeImport_false", "finished_false">>
             /\ pc' = "done"
             /\ UNCHANGED <<srcPos, columnsFromPlugin, columnTypesFromPlugin>>
        ELSE /\ srcPos' = 0
             /\ columnsFromPlugin' = readPluginColumns(columnsFromPlugin, pluginColumns)
             /\ columnTypesFromPlugin' =
                    readPluginColumnTypes(columnTypesFromPlugin, pluginColumns)
             /\ IF NoColumns(columnsFromPlugin')
                THEN /\ events' = events \o <<"beforeImport_ok">> \o error("err_noColumns")
                     /\ pc' = "done"
                ELSE /\ events' = events \o <<"beforeImport_ok">>
                     /\ pc' = "begin"
    /\ UNCHANGED <<cfgVars, db, tableColumns, finalColumns, targetColumns, tableCreated,
                   colCount, rowCnt, row, args, histVars, intVars, runVars, warnings, infos>>

\* lines 28-32: db->begin() unless skipTransaction
RunBegin ==
    /\ pc = "begin"
    /\ IF ~UsesTransaction
       THEN /\ pc' = "prepareTable"
            /\ UNCHANGED <<db, events>>
       ELSE \E ok \in BOOLEAN :
              IF ok
              THEN /\ db' = DbBegin(db)
                   /\ events' = Append(events, "begin_ok")
                   /\ pc' = "prepareTable"
              ELSE /\ db' = db
                   /\ events' = events \o <<"begin_fail">> \o error("err_beginFailed")
                   /\ pc' = "done"
    /\ UNCHANGED <<cfgVars, workerVars, histVars, intVars, runVars, srcPos, warnings, infos>>

\* prepareTable lines 91-129, and lines 34-40 of run() when it returns false
PrepareTable ==
    /\ pc = "prepareTable"
    /\ tableColumns' = getTableColumns(db)
    /\ IF TableExists(tableColumns')
       THEN /\ finalColumns' = Reconcile(tableColumns', columnsFromPlugin)
            /\ warnings' = warnings \o ReconcileWarnings(tableColumns', columnsFromPlugin)
            /\ infos' = infos \o ReconcileInfos(tableColumns', columnsFromPlugin)
            /\ pc' = "pollPrepare"
            /\ UNCHANGED <<db, events, tableCreated>>
       ELSE \E ok \in BOOLEAN :
              IF ok /\ DbCanCreate(db)
              THEN /\ db' = DbCreateTable(db, ColDefs(columnsFromPlugin, columnTypesFromPlugin))
                   /\ events' = Append(events, "create_ok")
                   /\ finalColumns' = columnsFromPlugin
                   /\ tableCreated' = TRUE
                   /\ pc' = "pollPrepare"
                   /\ UNCHANGED <<warnings, infos>>
              ELSE /\ db' = RollbackUnlessSkipped(db)
                   /\ events' = events \o <<"create_fail">> \o FailureEvents("err_createFailed")
                   /\ pc' = "done"
                   /\ UNCHANGED <<finalColumns, tableCreated, warnings, infos>>
    /\ UNCHANGED <<cfgVars, columnsFromPlugin, columnTypesFromPlugin, targetColumns,
                   colCount, rowCnt, row, args, histVars, intVars, runVars, srcPos>>

PollPrepare_NoPoll ==
    /\ pc = "pollPrepare"
    /\ targetColumns' = wrapObjNamesIfNeeded(finalColumns)
    /\ pc' = "importData"
    /\ UNCHANGED <<cfgVars, columnsFromPlugin, columnTypesFromPlugin, tableColumns,
                   finalColumns, tableCreated, colCount, rowCnt, row, args,
                   histVars, intVars, runVars, srcPos, db, events, warnings, infos>>

\* prepareTable lines 131-138, and lines 34-40 of run() when it returns false
PollPrepare ==
    /\ pc = "pollPrepare"
    /\ pollsAfterInt' = pollsAfterInt + (IF interrupted THEN 1 ELSE 0)
    /\ IF isInterrupted
       THEN /\ db' = RollbackUnlessSkipped(db)
            /\ events' = events \o FailureEvents("err_interrupted")
            /\ pc' = "done"
            /\ UNCHANGED targetColumns
       ELSE /\ targetColumns' = wrapObjNamesIfNeeded(finalColumns)
            /\ pc' = "importData"
            /\ UNCHANGED <<db, events>>
    /\ UNCHANGED <<cfgVars, columnsFromPlugin, columnTypesFromPlugin, tableColumns,
                   finalColumns, tableCreated, colCount, rowCnt, row, args,
                   inserted, failedRows, execCount, startDb, execAfterInt,
                   intVars, runVars, srcPos, warnings, infos>>

\* importData lines 143-157: the INSERT with colCount marks is prepared once
ImportPrepare ==
    /\ pc = "importData"
    /\ colCount' = Len(targetColumns)
    /\ rowCnt' = 0
    /\ events' = Append(events, "prepare")
    /\ pc' = "next"
    /\ UNCHANGED <<cfgVars, columnsFromPlugin, columnTypesFromPlugin, tableColumns,
                   finalColumns, targetColumns, tableCreated, row, args,
                   histVars, intVars, runVars, srcPos, db, warnings, infos>>

\* importData lines 158-182 and 197, and lines 42-48 of run() when it returns false
ImportNext ==
    /\ pc = "next"
    /\ row' = pluginNext
    /\ srcPos' = IF srcPos < Len(source) THEN srcPos + 1 ELSE srcPos
    /\ IF EndOfStream(row')
       THEN /\ pc' = "commit"
            /\ UNCHANGED <<args, db, events, warnings, inserted, failedRows, execCount,
                           execAfterInt>>
       ELSE /\ args' = BoundArgs(row', colCount)
            /\ execCount' = execCount + 1
            /\ execAfterInt' = execAfterInt + (IF interrupted THEN 1 ELSE 0)
            /\ IF ExecuteOk(InsertStatement(colCount), args', source[srcPos'].bad, db)
               THEN /\ db' = DbInsert(db, args')
                    /\ inserted' = Append(inserted, args')
                    /\ pc' = "pollRow"
                    /\ UNCHANGED <<events, warnings, failedRows>>
               ELSE /\ failedRows' = Append(failedRows, srcPos')
                    /\ inserted' = inserted
                    /\ IF RowFailureFatal
                       THEN /\ db' = RollbackUnlessSkipped(db)
                            /\ events' = events \o FailureEvents("err_rowError")
                            /\ pc' = "done"
                            /\ UNCHANGED warnings
                       ELSE /\ warnings' = Append(warnings, RowWarning(rowCnt))
                            /\ pc' = "pollRow"
                            /\ UNCHANGED <<db, events>>
    /\ UNCHANGED <<cfgVars, columnsFromPlugin, columnTypesFromPlugin, tableColumns,
                   finalColumns, targetColumns, tableCreated, colCount, rowCnt,
                   startDb, pollsAfterInt, intVars, runVars, infos>>

\* importData lines 184-195, and lines 42-48 of run() when it returns false
ImportPoll ==
    /\ pc = "pollRow"
    /\ pollsAfterInt' = pollsAfterInt + (IF ShouldPoll(rowCnt) /\ interrupted THEN 1 ELSE 0)
    /\ IF ShouldPoll(rowCnt) /\ isInterrupted
       THEN /\ db' = RollbackUnlessSkipped(db)
            /\ events' = events \o FailureEvents("err_interrupted")
            /\ pc' = "done"
            /\ UNCHANGED rowCnt
       ELSE /\ rowCnt' = rowCnt + 1
            /\ pc' = "next"
            /\ UNCHANGED <<db, events>>
    /\ UNCHANGED <<cfgVars, columnsFromPlugin, columnTypesFromPlugin, tableColumns,
                   finalColumns, targetColumns, tableCreated, colCount, row, args,
                   inserted, failedRows, execCount, startDb, execAfterInt,
                   intVars, runVars, srcPos, warnings, infos>>

\* lines 50-63: db->commit() unless skipTransaction, then the successful end
RunCommit ==
    /\ pc = "commit"
    /\ IF ~UsesTransaction
       THEN /\ events' = events \o SuccessEvents
            /\ db' = db
       ELSE \E ok \in BOOLEAN :
              IF ok
              THEN /\ db' = DbCommit(db)
                   /\ events' = events \o <<"commit_ok">> \o SuccessEvents
              ELSE /\ db' = RollbackUnlessSkipped(db)
                   /\ events' = events \o <<"commit_fail">> \o FailureEvents("err_commitFailed")
    /\ pc' = "done"
    /\ UNCHANGED <<cfgVars, workerVars, histVars, intVars, runVars, srcPos, warnings, infos>>

\* interrupt(): sets the flag under the mutex, from another thread, at any time
Interrupt ==
    /\ interrupted' = TRUE
    /\ intPc' = IF interrupted THEN intPc ELSE pc
    /\ intRow' = IF interrupted THEN intRow ELSE rowCnt
    /\ UNCHANGED <<cfgVars, workerVars, histVars, runVars, srcPos, db, pc, events,
                   warnings, infos>>

\* the constructor, lines 8-11: the next import gets a worker of its own
NewWorker ==
    /\ pc = "done"
    /\ runNo < MaxRuns
    /\ runNo' = runNo + 1
    /\ prevRun' = [valid |-> Len(finalColumns) > 0, table |-> tableColumns,
                   cols |-> columnsFromPlugin, final |-> finalColumns]
    /\ pc' = "idle"
    /\ columnsFromPlugin' = NewColumnsFromPlugin
    /\ columnTypesFromPlugin' = <<>>
    /\ tableColumns' = <<>>
    /\ finalColumns' = <<>>
    /\ targetColumns' = <<>>
    /\ tableCreated' = FALSE
    /\ interrupted' = FALSE
    /\ colCount' = 0
    /\ rowCnt' = 0
    /\ row' = <<>>
    /\ args' = <<>>
    /\ events' = <<>>
    /\ warnings' = <<>>
    /\ infos' = <<>>
    /\ inserted' = <<>>
    /\ failedRows' = <<>>
    /\ execCount' = 0
    /\ startDb' = Durable(db)
    /\ intPc' = "none"
    /\ intRow' = 0
    /\ execAfterInt' = 0
    /\ pollsAfterInt' = 0
    /\ UNCHANGED <<cfgVars, srcPos, db>>

Worker ==
    \/ RunBeforeImport
    \/ RunBegin
    \/ PrepareTable
    \/ PollPrepare
    \/ ImportPrepare
    \/ ImportNext
    \/ ImportPoll
    \/ RunCommit

Next ==
    \/ RunBeforeImport
    \/ RunBegin
    \/ PrepareTable
    \/ PollPrepare
    \/ ImportPrepare
    \/ ImportNext
    \/ ImportPoll
    \/ RunCommit
    \/ Interrupt
    \/ NewWorker

\* one import: a worker, and interrupt() from another thread
NextOne ==
    \/ RunBeforeImport
    \/ RunBegin
    \/ PrepareTable
    \/ PollPrepare
    \/ ImportPrepare
    \/ ImportNext
    \/ ImportPoll
    \/ RunCommit
    \/ Interrupt

\* one import of short row streams
Spec == Init /\ [][NextOne]_vars

\* one import of the long row stream
LongSpec == InitLong /\ [][NextOne]_vars

\* imports one after the other, each by a worker of its own
SeqSpec == Init /\ [][Next]_vars

\* one import of a row stream with an empty row inside it
GapSpec == InitGap /\ [][NextOne]_vars

\* one import; the thread that runs run() keeps running it
FairSpec == Spec /\ WF_vars(Worker)

\* ------------------------------------------------------------ vocabulary of the claims
Count(seq, e) == Cardinality({i \in DOMAIN seq : seq[i] = e})

Has(seq, e) == \E i \in DOMAIN seq : seq[i] = e

Finished == Count(events, "finished_true") + Count(events, "finished_false")

\* the names the plugin declares, in its order
PluginNames == [i \in DOMAIN pluginColumns |-> pluginColumns[i][1]]

\* the rows of the stream before its first empty row: N of them, K of them failing
StreamLen ==
    IF \E i \in DOMAIN source : Len(source[i].vals) = 0
    THEN (CHOOSE i \in DOMAIN source :
             /\ Len(source[i].vals) = 0
             /\ \A j \in 1..(i - 1) : Len(source[j].vals) > 0) - 1
    ELSE Len(source)

\* the statement has fewer parameter marks than the table has columns
ColumnMismatch == Len(startDb.table) > Len(PluginNames)

IsBadPosition(i) == source[i].bad \/ ColumnMismatch

FailPositions == SelectSeq([i \in 1..StreamLen |-> i], IsBadPosition)

IsRowWarning(w) == w[1] = "row"

RowWarnings == SelectSeq(warnings, IsRowWarning)

\* run() is between its first statement and its commit
InProgress(p) == p \in {"begin", "prepareTable", "pollPrepare", "importData", "next", "pollRow"}

\* ------------------------------------------------------------ C1
\* C1: with skipTransaction=false and the transaction begun, nothing of the run is
\* durable before the commit, and once run() has returned either the commit
\* succeeded and the created table (if any) and every successfully executed row are
\* in the destination, or rollback was performed and the destination is as it was
\* before the run, table creation included.
C1_AllOrNothing ==
    /\ (~skipTransaction /\ pc # "done") => Durable(db) = startDb
    /\ (pc = "done" /\ ~skipTransaction /\ Has(events, "begin_ok")) =>
         /\ ~db.inTxn
         /\ \/ /\ Has(events, "commit_ok")
               /\ ~Has(events, "rollback")
               /\ db.table = (IF tableCreated THEN PluginNames ELSE startDb.table)
               /\ db.rows = startDb.rows \o inserted
            \/ /\ ~Has(events, "commit_ok")
               /\ Count(events, "rollback") = 1
               /\ db.table = startDb.table
               /\ db.rows = startDb.rows

\* a run that created the table and inserted a row, then rolled both back
C1_Witness ==
    /\ pc = "done" /\ ~skipTransaction /\ Has(events, "rollback")
    /\ tableCreated /\ Len(inserted) > 0 /\ db.table = <<>> /\ db.rows = <<>>

InsertionComplete == Has(events, "prepare") /\ Len(row) = 0 /\ pc = "done"

C3_State ==
    /\ Finished <= 1
    /\ pc = "done" => Finished = 1
    /\ Has(events, "finished_true") =>
         /\ pc = "done"
         /\ events[Len(events)] = "finished_true"
         /\ InsertionComplete
         /\ skipTransaction \/ Has(events, "commit_ok")
    /\ (pc = "done" /\ InsertionComplete /\ (skipTransaction \/ Has(events, "commit_ok")))
         => Has(events, "finished_true")

\* C3: every run() over a finite row stream terminates, and emits finished exactly
\* once: finished(true) only after a successful commit (with skipTransaction, after
\* the insertion loop has completed), finished(false) otherwise, never both and
\* never twice, also when error() is followed by rollback in run().
C3_FinishedOnce == [](C3_State) /\ ((pc # "done") ~> (pc = "done"))

\* a run that reported a row error, emitted finished(false) once and rolled back
C3_Witness ==
    /\ pc = "done" /\ Has(events, "err_rowError") /\ Has(events, "rollback")
    /\ Count(events, "finished_false") = 1

\* ------------------------------------------------------------ C4
\* C4: after reconciliation, with D columns in the destination and S >= 1 source
\* columns: D = 0 creates the table with the S source columns in source order and
\* sets tableCreated; 0 < D < S uses the D destination columns with one warning;
\* D > S uses the first S destination columns with one info notice; D = S uses the
\* D columns with no notice; for D > 0 the list has min(D, S) columns and no
\* CREATE is executed.
C4_Reconciliation ==
    pc = "pollPrepare" =>
      LET D == Len(startDb.table)
          S == Len(PluginNames)
          dest == startDb.table
      IN  /\ S >= 1
          /\ D = 0 =>
               /\ tableCreated
               /\ Count(events, "create_ok") = 1
               /\ finalColumns = PluginNames
               /\ db.table = PluginNames
               /\ warnings = <<>> /\ infos = <<>>
          /\ D > 0 =>
               /\ ~tableCreated
               /\ ~Has(events, "create_ok") /\ ~Has(events, "create_fail")
               /\ Len(finalColumns) = Min(D, S)
               /\ db.table = dest
          /\ (0 < D /\ D < S) =>
               /\ finalColumns = dest
               /\ warnings = << <<"fewerColumns", 0>> >> /\ infos = <<>>
          /\ D > S =>
               /\ finalColumns = SubSeq(dest, 1, S)
               /\ infos = <<"moreColumns">> /\ warnings = <<>>
          /\ (D > 0 /\ D = S) =>
               /\ finalColumns = dest
               /\ warnings = <<>> /\ infos = <<>>

\* a destination with more columns than the source, cut to the first S
C4_Witness ==
    /\ pc = "pollPrepare" /\ Len(startDb.table) > Len(PluginNames)
    /\ Len(finalColumns) = Len(PluginNames) /\ infos = <<"moreColumns">>

\* ------------------------------------------------------------ C5
\* C5: the values bound for every non-empty row are exactly colCount many, colCount
\* being the reconciled column count: the row's own values in order, then null text
\* values if the row is shorter, its first colCount values if it is longer; and no
\* execute() fails over the number of values bound: one fails only on a row the
\* destination rejects, or in a table with more columns than the statement has
\* parameter marks, whatever the length of the row.
C5_BoundValues ==
    /\ (execCount > 0 /\ Len(row) > 0) =>
         /\ colCount = Len(finalColumns)
         /\ Len(args) = colCount
         /\ \A i \in 1..colCount :
              args[i] = (IF i <= Len(row) THEN row[i] ELSE NullString)
    /\ \A i \in DOMAIN failedRows : source[failedRows[i]].bad \/ ColumnMismatch
    /\ \A i \in DOMAIN inserted : Len(inserted[i]) = colCount

\* a row shorter than the column count was executed with a null in its last place
C5_Witness ==
    /\ pc = "pollRow" /\ Len(row) < colCount /\ args[colCount] = NullString
    /\ Len(inserted) > 0

\* ------------------------------------------------------------ C6
\* C6: with ignoreErrors=false the first row whose execute() fails ends the run: no
\* later row is fetched or executed, finished(false) is emitted, and a transactional
\* run is rolled back, so no row of the run, the earlier successful ones included,
\* is in the destination.
C6_FirstErrorAborts ==
    /\ (~ignoreErrors /\ Len(failedRows) > 0) =>
         /\ pc = "done"
         /\ Len(failedRows) = 1
         /\ failedRows[1] = FailPositions[1]
         /\ srcPos = failedRows[1]
         /\ execCount = failedRows[1]
         /\ Has(events, "err_rowError")
         /\ Has(events, "finished_false") /\ ~Has(events, "finished_true")
         /\ ~skipTransaction =>
              /\ Has(events, "rollback")
              /\ ~db.inTxn
              /\ db.rows = startDb.rows
              /\ db.table = startDb.table

\* the second row failed after the first had been inserted; the run was rolled back
C6_Witness ==
    /\ pc = "done" /\ ~ignoreErrors /\ ~skipTransaction
    /\ failedRows = <<2>> /\ Len(inserted) = 1 /\ db.rows = startDb.rows

\* ------------------------------------------------------------ C7
\* C7: with ignoreErrors=true, a run that is not interrupted and whose commit does
\* not fail, over a stream of N rows of which K fail, ends with finished(true), the
\* N-K other rows committed, and K warnings from the insertion loop naming, in
\* order, the 1-based stream positions of the failed rows; every row of the stream
\* is executed.  (A table with fewer columns than the source adds its own warning
\* before the loop.)
C7_IgnoredErrors ==
    (/\ pc = "done" /\ ignoreErrors /\ Has(events, "prepare")
     /\ ~Has(events, "err_interrupted") /\ ~Has(events, "err_commitFailed")) =>
      LET K == Len(FailPositions)
      IN  /\ Has(events, "finished_true")
          /\ execCount = StreamLen
          /\ failedRows = FailPositions
          /\ Len(inserted) = StreamLen - K
          /\ ~db.inTxn
          /\ db.rows = startDb.rows \o inserted
          /\ RowWarnings = [i \in 1..K |-> <<"row", FailPositions[i]>>]
          /\ Len(warnings) =
               K + (IF 0 < Len(startDb.table) /\ Len(startDb.table) < Len(PluginNames)
                    THEN 1 ELSE 0)

\* the first row failed and was reported, the second was inserted and committed
C7_Witness ==
    /\ pc = "done" /\ ignoreErrors /\ Has(events, "finished_true")
    /\ failedRows = <<1>> /\ Len(inserted) = 1 /\ RowWarnings = << <<"row", 1>> >>

\* ------------------------------------------------------------ C8
\* C8: at most 100 execute() calls are made after interrupt() has been called; and
\* when interrupt() is called during a run before row 100 of a stream of more than
\* 100 rows, the run ends with finished(false) and, if transactional, with no row
\* and no table of the run in the destination; called during insertion, it ends
\* the run with the interrupted error unless a row error ends it first.
C8_CancellationLatency ==
    /\ execAfterInt <= PollInterval
    /\ (/\ pc = "done" /\ InProgress(intPc)
        /\ intRow < PollInterval /\ StreamLen > PollInterval) =>
         /\ Has(events, "finished_false") /\ ~Has(events, "finished_true")
         /\ execCount <= PollInterval + 1
         /\ ~skipTransaction =>
              (~db.inTxn /\ db.rows = startDb.rows /\ db.table = startDb.table)
    /\ (/\ pc = "done" /\ intPc \in {"importData", "next", "pollRow"}
        /\ intRow < PollInterval /\ StreamLen > PollInterval
        /\ ~Has(events, "err_rowError")) =>
         /\ Has(events, "err_interrupted")
         /\ pollsAfterInt = 1

\* interrupt() came right after the poll of row 1: 100 more rows were executed
C8_Witness ==
    /\ pc = "done" /\ execAfterInt = PollInterval /\ Has(events, "err_interrupted")
    /\ intPc = "next" /\ intRow = 1

\* ------------------------------------------------------------ C9
\* C9 as claimed (leaving aside which error the failure carries): whenever
\* interrupt() is called while run() is in progress, before it commits, the run
\* ends with finished(false), never with finished(true), and is rolled back when
\* transactional.
C9_StopAlwaysFatal ==
    (pc = "done" /\ InProgress(intPc)) =>
      /\ Has(events, "finished_false") /\ ~Has(events, "finished_true")
      /\ (~skipTransaction /\ Has(events, "begin_ok")) => Has(events, "rollback")

\* C9, amended: a stop request is fatal once a poll observes it.  The flag is read
\* at most once while set; the run then ends with finished(false) carrying the
\* interrupted error, never finished(true), and is rolled back when transactional.
\* A request made before the post-reconciliation poll is observed there, before
\* the INSERT is prepared, if the run gets that far; a request made after the last
\* poll of the run is not observed.
C9_ObservedStopFatal ==
    /\ pollsAfterInt <= 1
    /\ pollsAfterInt = 1 =>
         /\ pc = "done"
         /\ Has(events, "err_interrupted")
         /\ Has(events, "finished_false") /\ ~Has(events, "finished_true")
         /\ ~skipTransaction =>
              /\ Count(events, "rollback") = 1
              /\ ~db.inTxn
              /\ Durable(db) = startDb
    /\ (/\ pc = "done"
        /\ intPc \in {"idle", "begin", "prepareTable", "pollPrepare"}
        /\ Has(events, "beforeImport_ok")
        /\ ~Has(events, "err_noColumns") /\ ~Has(events, "err_beginFailed")
        /\ ~Has(events, "err_createFailed")) =>
         /\ pollsAfterInt = 1
         /\ ~Has(events, "prepare")
    /\ Has(events, "err_interrupted") => pollsAfterInt = 1

\* interrupt() came during insertion, the next poll saw it and the run rolled back
C9_Witness ==
    /\ pc = "done" /\ pollsAfterInt = 1 /\ intPc = "next" /\ ~skipTransaction
    /\ Has(events, "rollback") /\ execCount = 1

Index(seq, e) ==
    IF Has(seq, e)
    THEN CHOOSE i \in DOMAIN seq : seq[i] = e /\ \A j \in 1..(i - 1) : seq[j] # e
    ELSE 0

\* a comes before b
Before(seq, a, b) == Has(seq, a) /\ Has(seq, b) /\ Index(seq, a) < Index(seq, b)

ErrorKinds == {"err_noColumns", "err_beginFailed", "err_createFailed",
               "err_interrupted", "err_rowError", "err_commitFailed"}

\* notifyError calls of this run
ErrorCount == Cardinality({i \in DOMAIN events : events[i] \in ErrorKinds})

\* the run failed before its transaction was begun
FailedEarly ==
    \/ Has(events, "beforeImport_false")
    \/ Has(events, "err_noColumns")
    \/ Has(events, "err_beginFailed")

\* the run failed in table preparation, row insertion or commit
FailedLate ==
    \/ Has(events, "err_createFailed")
    \/ Has(events, "err_interrupted")
    \/ Has(events, "err_rowError")
    \/ Has(events, "err_commitFailed")

\* ------------------------------------------------------------ C11
\* C11: db->rollback() is invoked at most once per run, only when skipTransaction
\* is false and db->begin() has succeeded, never after a successful commit; it is
\* invoked in every transactional run that fails in table preparation, row
\* insertion or commit, and in no run that fails before the transaction was begun.
C11_RollbackDiscipline ==
    /\ Count(events, "rollback") <= 1
    /\ Has(events, "rollback") =>
         /\ ~skipTransaction
         /\ Before(events, "begin_ok", "rollback")
         /\ ~Has(events, "commit_ok")
         /\ events[Len(events)] = "rollback"
    /\ (pc = "done" /\ ~skipTransaction /\ FailedLate) =>
         (Has(events, "rollback") /\ ~db.inTxn)
    /\ (pc = "done" /\ FailedEarly) => ~Has(events, "rollback")

\* a failed commit was followed by the one rollback of the run
C11_Witness ==
    /\ pc = "done" /\ Before(events, "commit_fail", "rollback")
    /\ Count(events, "rollback") = 1

\* ------------------------------------------------------------ C12
\* C12: when beforeImport returns false, when the plugin declares no column, or
\* when db->begin() fails, the run executes no CREATE TABLE, prepares no statement,
\* fetches and inserts no row, neither commits nor rolls back, leaves the
\* destination as it was and ends with finished(false).
C12_EarlyAbort ==
    (/\ pc = "done"
     /\ \/ Has(events, "beforeImport_false")
        \/ (Has(events, "beforeImport_ok") /\ Len(pluginColumns) = 0)
        \/ Has(events, "begin_fail")) =>
      /\ ~Has(events, "create_ok") /\ ~Has(events, "create_fail")
      /\ ~Has(events, "prepare")
      /\ execCount = 0 /\ srcPos = 0 /\ inserted = <<>>
      /\ ~Has(events, "commit_ok") /\ ~Has(events, "commit_fail")
      /\ ~Has(events, "rollback")
      /\ ~db.inTxn /\ db.table = startDb.table /\ db.rows = startDb.rows
      /\ events[Len(events)] = "finished_false"
      /\ Finished = 1

\* a plugin without columns: the run ended before the transaction
C12_Witness ==
    /\ pc = "done" /\ Len(pluginColumns) = 0 /\ Has(events, "err_noColumns")
    /\ ~skipTransaction /\ ~Has(events, "begin_ok")

\* ------------------------------------------------------------ C13
\* C13: createdTable is emitted at most once, and by the end of a run exactly when
\* the run created the table and ended successfully: after the commit (if there is
\* one) and before finished(true).  No failed run emits createdTable.
C13_CreatedTableSignal ==
    /\ Count(events, "createdTable") <= 1
    /\ pc = "done" =>
         (Has(events, "createdTable") <=> (tableCreated /\ Has(events, "finished_true")))
    /\ Has(events, "createdTable") =>
         /\ Has(events, "create_ok")
         /\ Before(events, "createdTable", "finished_true")
         /\ ~skipTransaction => Before(events, "commit_ok", "createdTable")
         /\ ~Has(events, "finished_false")

\* a transactional run created the table, committed and signalled it
C13_Witness ==
    /\ pc = "done" /\ ~skipTransaction /\ tableCreated
    /\ Before(events, "commit_ok", "createdTable") /\ Len(inserted) > 0

C15_NoTransaction ==
    skipTransaction =>
      /\ ~Has(events, "begin_ok") /\ ~Has(events, "begin_fail")
      /\ ~Has(events, "commit_ok") /\ ~Has(events, "commit_fail")
      /\ ~Has(events, "rollback")
      /\ ~db.inTxn
      /\ Durable(db).rows = startDb.rows \o inserted
      /\ Durable(db).table = (IF tableCreated THEN PluginNames ELSE startDb.table)

\* a run without transaction failed at its second row and kept the first
C15_Witness ==
    /\ pc = "done" /\ skipTransaction /\ Has(events, "err_rowError")
    /\ Len(inserted) = 1 /\ db.rows = startDb.rows \o inserted

\* ------------------------------------------------------------ C16
\* C16: the flag is read once after reconciliation and after any table creation:
\* when interrupt() was called before that read and the run comes to it, the run
\* fails there with the interrupted error, after the CREATE TABLE if it made one,
\* before the INSERT is prepared and before any row is fetched or written.
C16_PollAfterReconciliation ==
    /\ (/\ intPc \in {"idle", "begin", "prepareTable", "pollPrepare"}
        /\ pc \notin {"idle", "begin", "prepareTable", "pollPrepare"}
        /\ Len(finalColumns) > 0) =>
         /\ pc = "done"
         /\ pollsAfterInt = 1
         /\ Has(events, "err_interrupted")
         /\ tableCreated => Before(events, "create_ok", "err_interrupted")
         /\ ~Has(events, "prepare")
         /\ srcPos = 0 /\ execCount = 0 /\ inserted = <<>>
         /\ targetColumns = <<>>
    /\ (Has(events, "err_interrupted") /\ ~Has(events, "prepare")) =>
         (srcPos = 0 /\ execCount = 0 /\ Len(finalColumns) > 0)

\* interrupt() came while the table was being created; the poll ended the run
C16_Witness ==
    /\ pc = "done" /\ intPc = "prepareTable" /\ tableCreated
    /\ Before(events, "create_ok", "err_interrupted") /\ ~Has(events, "prepare")

\* ------------------------------------------------------------ C17
\* C17 as claimed: when the table exists with more columns than the plugin declares,
\* a row fails only for a reason of its own, and each written row fills the first
\* columns of the table with its values and leaves the other columns empty.
C17_ExtraColumnsLeftEmpty ==
    (Len(startDb.table) > Len(PluginNames) /\ Len(PluginNames) > 0) =>
      /\ \A i \in 1..Len(failedRows) : source[failedRows[i]].bad
      /\ \A i \in 1..Len(inserted) :
           /\ Len(inserted[i]) = Len(startDb.table)
           /\ \A k \in (Len(PluginNames) + 1)..Len(startDb.table) :
                inserted[i][k] = NullString

\* ------------------------------------------------------------ C18
\* C18: an empty row inside the stream ends the insertion loop like the end of the
\* stream: no row after it is fetched or executed, the run goes on to the commit,
\* and it ends with finished(true) unless that commit fails.
C18_EmptyRowEndsStream ==
    StreamLen < Len(source) =>
      /\ srcPos <= StreamLen + 1
      /\ execCount <= StreamLen
      /\ Len(inserted) + Len(failedRows) <= StreamLen
      /\ srcPos = StreamLen + 1 => (pc \in {"commit", "done"} /\ row = <<>>)
      /\ (pc = "done" /\ srcPos = StreamLen + 1) =>
           /\ Has(events, "finished_true") <=>
                (skipTransaction \/ Has(events, "commit_ok"))
           /\ Has(events, "finished_false") <=> Has(events, "err_commitFailed")
      /\ Has(events, "finished_true") =>
           (srcPos = StreamLen + 1 /\ Durable(db).rows = startDb.rows \o inserted)

\* the first row was written, the empty row ended the run, a row was left unread
C18_Witness ==
    /\ pc = "done" /\ Has(events, "finished_true")
    /\ StreamLen = 1 /\ Len(source) = 3 /\ Len(source[3].vals) > 0
    /\ srcPos = 2 /\ Len(inserted) = 1

\* ------------------------------------------------------------ C19
\* C19: in a run with a transaction that fails after begin succeeded, the error
\* notification, the after-import hook and finished(false) all come before the one
\* db->rollback() call, which is the last thing run() does; no commit or rollback
\* precedes finished(false).
C19_RollbackAfterFinished ==
    /\ Has(events, "rollback") =>
         /\ \E e \in ErrorKinds : Before(events, e, "afterImport")
         /\ Before(events, "afterImport", "finished_false")
         /\ Before(events, "finished_false", "rollback")
         /\ Index(events, "finished_false") = Len(events) - 1
    /\ (/\ pc = "done" /\ ~skipTransaction
        /\ Has(events, "begin_ok") /\ Has(events, "finished_false")) =>
         /\ Before(events, "finished_false", "rollback")
         /\ ~Has(events, "commit_ok")
         /\ FailedLate

\* a row was rejected: the error, the hook, finished(false), then the rollback
C19_Witness ==
    /\ pc = "done" /\ Has(events, "err_rowError")
    /\ Before(events, "finished_false", "rollback") /\ Len(failedRows) = 1

\* ------------------------------------------------------------ C20
\* C20: with skipTransaction=true, a run that created the table and then fails, by
\* interruption at the poll after reconciliation or in the insertion loop or by a
\* row error, leaves the new table (and the rows written) in the destination and
\* ends with finished(false), never emitting createdTable.
C20_CreatedTableSurvivesFailure ==
    (pc = "done" /\ skipTransaction /\ tableCreated /\ Has(events, "finished_false")) =>
      /\ startDb.table = <<>>
      /\ Len(PluginNames) > 0
      /\ Durable(db).table = PluginNames
      /\ Durable(db).rows = inserted
      /\ ~Has(events, "createdTable")
      /\ Has(events, "err_interrupted") \/ Has(events, "err_rowError")
      /\ events[Len(events)] = "finished_false"

\* the table was created, the run was interrupted at the poll that follows
C20_Witness ==
    /\ pc = "done" /\ skipTransaction /\ tableCreated
    /\ Has(events, "err_interrupted") /\ ~Has(events, "prepare")
    /\ db.table = PluginNames /\ ~db.inTxn

====
